---- MODULE Spec2Model ----
(***************************************************************************)
(* serde-json-assert: the Config builder, the comparison entry points and  *)
(* the assertion macros of src/src/lib.rs, together with the diff engine   *)
(* (crate::diff, crate::core_ext) they call.                               *)
(*                                                                         *)
(* Numbers: an integer is held as itself, a float is held in halves        *)
(* (n = 2 is 1.0, n = 3 is 1.5), so that an integer and a float of the     *)
(* same magnitude are different values with the same image under as_f64.   *)
(***************************************************************************)
EXTENDS Integers, Sequences, FiniteSets, TLC

VARIABLES pc, config, last, lhs, rhs, result

vars == <<pc, config, last, lhs, rhs, result>>

-----------------------------------------------------------------------------
(* Bounds of the value universe *)

\* the longest array
MaxLen == 2

-----------------------------------------------------------------------------
(* serde_json::Value *)

NoValue == [kind |-> "none", b |-> FALSE, f |-> FALSE, n |-> 0, s |-> "",
            keys |-> <<>>, kids |-> <<>>]

Null == [NoValue EXCEPT !.kind = "null"]

Bool(x) == [NoValue EXCEPT !.kind = "bool", !.b = x]

JInt(i) == [NoValue EXCEPT !.kind = "number", !.n = i]

JFloat(halves) == [NoValue EXCEPT !.kind = "number", !.f = TRUE, !.n = halves]

Str(x) == [NoValue EXCEPT !.kind = "string", !.s = x]

Array(items) == [NoValue EXCEPT !.kind = "array", !.kids = items]

Object(ks, vs) == [NoValue EXCEPT !.kind = "object", !.keys = ks, !.kids = vs]

\* serde_json's Map keeps its keys sorted; KeyOrder is that order.
KeyOrder == <<"a", "b">>

KeySet == {KeyOrder[i] : i \in 1..Len(KeyOrder)}

KeysOf(K) == SelectSeq(KeyOrder, LAMBDA k : k \in K)

\* json!({...}) over the key set K with the values g[k]
ObjectOf(K, g) == Object(KeysOf(K), [i \in 1..Len(KeysOf(K)) |-> g[KeysOf(K)[i]]])

ObjectsOver(Ks, Vs) == UNION {{ObjectOf(K, g) : g \in [K -> Vs]} : K \in SUBSET Ks}

ArraysOver(Vs, lo, hi) == UNION {{Array(t) : t \in [1..n -> Vs]} : n \in lo..hi}

Ints == {JInt(1), JInt(2)}

Scalars ==
    {Null, Bool(TRUE), Bool(FALSE), JFloat(2), JFloat(3), JFloat(4), Str("s")} \cup Ints

FlatObjects == ObjectsOver(KeySet, Ints)

FlatArrays == ArraysOver(Ints, 0, MaxLen)

InnerObjects == ObjectsOver({"b"}, Ints)

NestedObjects ==
    {ObjectOf({"a"}, [k \in {"a"} |-> x]) :
        x \in InnerObjects \cup ArraysOver(Ints, 0, MaxLen - 1)}

ElemObjects == {ObjectOf({"a"}, [k \in {"a"} |-> JInt(1)]),
                ObjectOf({"a", "b"}, [k \in {"a", "b"} |-> JInt(1)])}

ObjectArrays == ArraysOver(ElemObjects, 1, MaxLen)

Values == Scalars \cup FlatObjects \cup FlatArrays \cup NestedObjects \cup ObjectArrays

-----------------------------------------------------------------------------
(* Config and its builder *)

Exact == [tag |-> "Exact", eps |-> 0]

\* the tolerance one step short of the one asked for, which on whole steps
\* is the tolerance taken as a strict upper limit
Epsilon_short(e) == [tag |-> "Epsilon", eps |-> e - 1]

Epsilon(e) == [tag |-> "Epsilon", eps |-> e]

\* the epsilons tried, in halves
Epsilons == {1}

CompareModes == {"Inclusive", "Strict"}

NumericModes == {"Strict", "AssumeFloat"}

FloatCompareModes == {Exact} \cup {Epsilon(e) : e \in Epsilons}

NoConfig == [array_sorting_mode |-> "none", compare_mode |-> "none",
             numeric_mode |-> "none", float_compare_mode |-> Exact]

\* numbers assumed to be floats by default
Config_new_assume_float(compare_mode) ==
    [array_sorting_mode |-> "Consider",
     compare_mode |-> compare_mode,
     numeric_mode |-> "AssumeFloat",
     float_compare_mode |-> Exact]

Config_new(compare_mode) ==
    [array_sorting_mode |-> "Consider",
     compare_mode |-> compare_mode,
     numeric_mode |-> "Strict",
     float_compare_mode |-> Exact]

numeric_mode(self, m) == [self EXCEPT !.numeric_mode = m]

compare_mode(self, m) == [self EXCEPT !.compare_mode = m]

float_compare_mode(self, m) == [self EXCEPT !.float_compare_mode = m]

\* The panic sits in the `consider` branch.
consider_array_sorting_panics(self, consider) ==
    consider /\ self.compare_mode = "Strict"

\* the two branches the wrong way round
consider_array_sorting_inverted(self, consider) ==
    IF consider
    THEN [self EXCEPT !.array_sorting_mode = "Ignore"]
    ELSE [self EXCEPT !.array_sorting_mode = "Consider"]

consider_array_sorting(self, consider) ==
    IF consider
    THEN [self EXCEPT !.array_sorting_mode = "Consider"]
    ELSE [self EXCEPT !.array_sorting_mode = "Ignore"]

-----------------------------------------------------------------------------
(* Path and Key (crate::diff) *)

Key_Field(k) == [tag |-> "Field", key |-> k, idx |-> 0]

Key_Idx(i) == [tag |-> "Idx", key |-> "", idx |-> i]

Path_Root == <<>>

Path_append(path, key) == Append(path, key)

Key_fmt(key) ==
    IF key.tag = "Idx"
    THEN "[" \o ToString(key.idx) \o "]"
    ELSE "." \o key.key

RECURSIVE Keys_fmt(_)
Keys_fmt(path) ==
    IF path = <<>> THEN "" ELSE Key_fmt(Head(path)) \o Keys_fmt(Tail(path))

Path_fmt(path) == IF path = Path_Root THEN "(root)" ELSE Keys_fmt(path)

-----------------------------------------------------------------------------
(* The diff engine (crate::diff) *)

RECURSIVE Concat(_)
Concat(ss) == IF ss = <<>> THEN <<>> ELSE Head(ss) \o Concat(Tail(ss))

\* One difference as the engine collects it: the two sides (NoValue for a
\* side that has nothing at the path), the path, what kind of node was
\* being compared, and the compare mode it was found under.
DifferenceRef(l, r, path, kind, cfg) ==
    [lhs |-> l, rhs |-> r, path |-> path, kind |-> kind, mode |-> cfg.compare_mode]

\* Number::as_f64, in halves
as_f64(v) == IF v.f THEN v.n ELSE v.n * 2

Abs(x) == IF x < 0 THEN -x ELSE x

eq_floats(a, b, cfg) ==
    IF cfg.float_compare_mode.tag = "Epsilon"
    THEN Abs(a - b) <= cfg.float_compare_mode.eps
    ELSE a = b

eq_values(l, r, cfg) ==
    IF l.kind = "number" /\ r.kind = "number" /\ l.f /\ r.f
    THEN eq_floats(as_f64(l), as_f64(r), cfg)
    ELSE l = r

on_number_equal(l, r, cfg) ==
    IF cfg.numeric_mode = "AssumeFloat"
    THEN r.kind = "number" /\ eq_floats(as_f64(l), as_f64(r), cfg)
    ELSE eq_values(l, r, cfg)

\* Null, Bool and String: equal iff the other side is the same atom
on_atom_equal(l, r) == l = r

\* Map::get / slice::get: the position of `key` in the object, 0 when absent
get(obj, key) ==
    IF \E i \in 1..Len(obj.keys) : obj.keys[i] = key
    THEN CHOOSE i \in 1..Len(obj.keys) : obj.keys[i] = key
    ELSE 0

Max(a, b) == IF a > b THEN a ELSE b

RECURSIVE diff_with(_, _, _, _)

on_object_inclusive(l, r, cfg, path) ==
    Concat([i \in 1..Len(r.keys) |->
        LET key == r.keys[i]
            at  == Path_append(path, Key_Field(key))
        IN  IF get(l, key) # 0
            THEN diff_with(l.kids[get(l, key)], r.kids[i], cfg, at)
            ELSE <<DifferenceRef(NoValue, r.kids[i], at, "key", cfg)>>])

on_object_strict(l, r, cfg, path) ==
    LET all_keys == KeysOf({l.keys[i] : i \in 1..Len(l.keys)}
                           \cup {r.keys[i] : i \in 1..Len(r.keys)})
    IN  Concat([i \in 1..Len(all_keys) |->
        LET key == all_keys[i]
            at  == Path_append(path, Key_Field(key))
            li  == get(l, key)
            ri  == get(r, key)
        IN  IF li # 0 /\ ri # 0 THEN diff_with(l.kids[li], r.kids[ri], cfg, at)
            ELSE IF li = 0 THEN <<DifferenceRef(NoValue, r.kids[ri], at, "key", cfg)>>
            ELSE <<DifferenceRef(l.kids[li], NoValue, at, "key", cfg)>>])

on_object(l, r, cfg, path) ==
    IF r.kind # "object" THEN <<DifferenceRef(l, r, path, "atom", cfg)>>
    ELSE IF cfg.compare_mode = "Inclusive" THEN on_object_inclusive(l, r, cfg, path)
    ELSE on_object_strict(l, r, cfg, path)

on_array_inclusive(l, r, cfg, path) ==
    Concat([i \in 1..Len(r.kids) |->
        LET at == Path_append(path, Key_Idx(i - 1))
        IN  IF i <= Len(l.kids)
            THEN diff_with(l.kids[i], r.kids[i], cfg, at)
            ELSE <<DifferenceRef(NoValue, r.kids[i], at, "index", cfg)>>])

on_array_strict(l, r, cfg, path) ==
    Concat([i \in 1..Max(Len(l.kids), Len(r.kids)) |->
        LET at == Path_append(path, Key_Idx(i - 1))
        IN  IF i <= Len(l.kids) /\ i <= Len(r.kids)
            THEN diff_with(l.kids[i], r.kids[i], cfg, at)
            ELSE IF i > Len(l.kids)
            THEN <<DifferenceRef(NoValue, r.kids[i], at, "index", cfg)>>
            ELSE <<DifferenceRef(l.kids[i], NoValue, at, "index", cfg)>>])

\* Order ignored: every expected element is tested on its own against the
\* whole actual array, nothing is consumed, and an element that expected
\* repeats needs at least as many equivalent elements in actual.
on_array_contains(l, r, cfg, path) ==
    Concat([i \in 1..Len(r.kids) |->
        LET rhs_item == r.kids[i]
            rhs_item_count ==
                Cardinality({j \in 1..Len(r.kids) : r.kids[j] = rhs_item})
            lhs_matching_items_count ==
                Cardinality({j \in 1..Len(l.kids) :
                    diff_with(l.kids[j], rhs_item, cfg, Path_Root) = <<>>})
        IN  IF lhs_matching_items_count < rhs_item_count
            THEN <<DifferenceRef(NoValue, rhs_item,
                                 Path_append(path, Key_Idx(i - 1)), "element", cfg)>>
            ELSE <<>>])

on_array(l, r, cfg, path) ==
    IF r.kind # "array" THEN <<DifferenceRef(l, r, path, "atom", cfg)>>
    ELSE IF cfg.compare_mode = "Strict" THEN on_array_strict(l, r, cfg, path)
    ELSE IF cfg.array_sorting_mode = "Ignore" THEN on_array_contains(l, r, cfg, path)
    ELSE on_array_inclusive(l, r, cfg, path)

diff_with(l, r, cfg, path) ==
    CASE l.kind = "array"  -> on_array(l, r, cfg, path)
      [] l.kind = "object" -> on_object(l, r, cfg, path)
      [] l.kind = "number" ->
            IF on_number_equal(l, r, cfg) THEN <<>>
            ELSE <<DifferenceRef(l, r, path, "atom", cfg)>>
      [] OTHER ->
            IF on_atom_equal(l, r) THEN <<>>
            ELSE <<DifferenceRef(l, r, path, "atom", cfg)>>

diff(l, r, cfg) == diff_with(l, r, cfg, Path_Root)

-----------------------------------------------------------------------------
(* Rendering a difference (Display for Difference, crate::diff) *)

RECURSIVE Join(_, _)
Join(lines, sep) ==
    IF lines = <<>> THEN ""
    ELSE IF Len(lines) = 1 THEN lines[1]
    ELSE lines[1] \o sep \o Join(Tail(lines), sep)

\* the lines of one member of a container: indented by two, the first line
\* behind its key, the last followed by a comma unless the member is the last
Member(prefix, ls, more) ==
    [j \in 1..Len(ls) |->
        "  " \o (IF j = 1 THEN prefix ELSE "") \o ls[j]
             \o (IF j = Len(ls) /\ more THEN "," ELSE "")]

\* serde_json::to_string_pretty, line by line
RECURSIVE PrettyLines(_)
PrettyLines(v) ==
    CASE v.kind = "null"   -> <<"null">>
      [] v.kind = "bool"   -> <<IF v.b THEN "true" ELSE "false">>
      [] v.kind = "number" ->
            IF v.f
            THEN <<ToString(v.n \div 2) \o (IF v.n % 2 = 0 THEN ".0" ELSE ".5")>>
            ELSE <<ToString(v.n)>>
      [] v.kind = "string" -> <<"\"" \o v.s \o "\"">>
      [] v.kind = "array"  ->
            IF v.kids = <<>> THEN <<"[]">>
            ELSE <<"[">>
                 \o Concat([i \in 1..Len(v.kids) |->
                        Member("", PrettyLines(v.kids[i]), i < Len(v.kids))])
                 \o <<"]">>
      [] v.kind = "object" ->
            IF v.kids = <<>> THEN <<"{}">>
            ELSE <<"{">>
                 \o Concat([i \in 1..Len(v.kids) |->
                        Member("\"" \o v.keys[i] \o "\": ",
                               PrettyLines(v.kids[i]), i < Len(v.kids))])
                 \o <<"}">>
      [] OTHER -> <<>>

\* to_string_pretty(v).indent(8)
Indented(v) ==
    LET lines == PrettyLines(v)
    IN  Join([j \in 1..Len(lines) |-> "        " \o lines[j]], "\n")

to_string(d) ==
    IF d.lhs # NoValue /\ d.rhs # NoValue
    THEN "json atoms at path \"" \o Path_fmt(d.path) \o "\" are not equal:\n"
         \o (IF d.mode = "Inclusive"
             THEN "    expected:\n" \o Indented(d.rhs) \o "\n    actual:\n" \o Indented(d.lhs)
             ELSE "    lhs:\n" \o Indented(d.lhs) \o "\n    rhs:\n" \o Indented(d.rhs))
    ELSE "json atom at path \"" \o Path_fmt(d.path) \o "\" is missing from "
         \o (IF d.lhs = NoValue
             THEN (IF d.mode = "Inclusive" THEN "actual" ELSE "lhs")
             ELSE (IF d.mode = "Inclusive" THEN "expected" ELSE "rhs"))

\* From<DifferenceRef> for Difference: the record handed to the caller
into(d) ==
    [type |-> CASE d.lhs # NoValue /\ d.rhs # NoValue -> "AtomMismatch"
                [] d.kind = "key"   -> "ObjectKeyMissing"
                [] d.kind = "index" -> "ArrayIndexMissing"
                [] OTHER            -> "ArrayElementMissing",
     path |-> d.path,
     lhs  |-> d.lhs,
     rhs  |-> d.rhs,
     missing_from |->
        IF d.lhs # NoValue /\ d.rhs # NoValue THEN "none"
        ELSE IF d.lhs = NoValue
        THEN (IF d.mode = "Inclusive" THEN "actual" ELSE "lhs")
        ELSE (IF d.mode = "Inclusive" THEN "expected" ELSE "rhs")]

-----------------------------------------------------------------------------
(* The entry points of lib.rs *)

Ok == [ok |-> TRUE, msg |-> "", diffs |-> <<>>]

Err(msg, diffs) == [ok |-> FALSE, msg |-> msg, diffs |-> diffs]

\* the emptiness test negated
assert_json_matches_no_panic_negated(l, r, cfg) ==
    LET diffs == diff(l, r, cfg)
    IN  IF diffs # <<>>
        THEN Ok
        ELSE Err(Join([i \in 1..Len(diffs) |-> to_string(diffs[i])], "\n\n"), <<>>)

\* the blocks run together, last difference first
assert_json_matches_no_panic_reversed(l, r, cfg) ==
    LET diffs == diff(l, r, cfg)
    IN  IF diffs = <<>>
        THEN Ok
        ELSE Err(Join([i \in 1..Len(diffs) |-> to_string(diffs[Len(diffs) + 1 - i])], "\n"),
                 <<>>)

assert_json_matches_no_panic(l, r, cfg) ==
    LET diffs == diff(l, r, cfg)
    IN  IF diffs = <<>>
        THEN Ok
        ELSE Err(Join([i \in 1..Len(diffs) |-> to_string(diffs[i])], "\n\n"), <<>>)

\* the operands handed to diff the wrong way round
try_assert_json_matches_swapped(l, r, cfg) ==
    LET diffs == diff(r, l, cfg)
        diffs_buf == [i \in 1..Len(diffs) |-> into(diffs[i])]
    IN  IF diffs_buf = <<>> THEN Ok ELSE Err("", diffs_buf)

\* a single difference let through
try_assert_json_matches_lenient(l, r, cfg) ==
    LET diffs == diff(l, r, cfg)
        diffs_buf == [i \in 1..Len(diffs) |-> into(diffs[i])]
    IN  IF Len(diffs_buf) <= 1 THEN Ok ELSE Err("", diffs_buf)

\* only the first difference kept
try_assert_json_matches_first(l, r, cfg) ==
    LET diffs == diff(l, r, cfg)
        diffs_buf == [i \in 1..Len(diffs) |-> into(diffs[i])]
    IN  IF diffs_buf = <<>> THEN Ok ELSE Err("", <<diffs_buf[1]>>)

try_assert_json_matches(l, r, cfg) ==
    LET diffs == diff(l, r, cfg)
        diffs_buf == [i \in 1..Len(diffs) |-> into(diffs[i])]
    IN  IF diffs_buf = <<>> THEN Ok ELSE Err("", diffs_buf)

\* assert_json_matches!(lhs, rhs, &config): the panic message, "" for none
assert_json_matches(l, r, cfg) ==
    LET res == assert_json_matches_no_panic(l, r, cfg)
    IN  IF res.ok THEN Ok ELSE Err("\n" \o res.msg, <<>>)

assert_json_eq_config == Config_new("Strict")

assert_json_include_config == Config_new("Inclusive")

\* assert_json_include!(actual: a, expected: e)
assert_json_include(actual, expected) ==
    assert_json_matches(actual, expected, assert_json_include_config)

\* the named operands passed on in the order they were written
assert_json_include_expected_first_unswapped(expected, actual) ==
    assert_json_include(expected, actual)

\* assert_json_include!(expected: e, actual: a)
assert_json_include_expected_first(expected, actual) ==
    assert_json_include(actual, expected)

\* array sorting left considered
assert_json_contains_config_considering ==
    consider_array_sorting(Config_new("Inclusive"), TRUE)

assert_json_contains_config == consider_array_sorting(Config_new("Inclusive"), FALSE)

-----------------------------------------------------------------------------
(* The state machine: one builder chain, then comparisons under it *)

NoResult == [ok |-> TRUE, msg |-> "", diffs |-> <<>>]

Call(op, arg) == [op |-> op, arg |-> arg]

HasConfig == pc \in {"config", "returned"}

\* A comparison borrows the config and leaves no state behind, so comparing
\* again after a comparison has returned is comparing from the same config:
\* the comparisons are taken from the state the builder chain ends in.
Ready == pc = "config"

Init ==
    /\ pc = "start"
    /\ config = NoConfig
    /\ last = Call("none", "")
    /\ lhs = NoValue
    /\ rhs = NoValue
    /\ result = NoResult

Built(cfg, call) ==
    /\ pc' = "config"
    /\ config' = cfg
    /\ last' = call
    /\ lhs' = NoValue
    /\ rhs' = NoValue
    /\ result' = NoResult

New ==
    \E m \in CompareModes : Built(Config_new(m), Call("new", m))

NumericMode ==
    /\ HasConfig
    /\ \E m \in NumericModes : Built(numeric_mode(config, m), Call("numeric_mode", m))

CompareMode ==
    /\ HasConfig
    /\ \E m \in CompareModes : Built(compare_mode(config, m), Call("compare_mode", m))

FloatCompareMode ==
    /\ HasConfig
    /\ \E m \in FloatCompareModes :
          Built(float_compare_mode(config, m), Call("float_compare_mode", m.tag))

ConsiderArraySorting ==
    /\ HasConfig
    /\ \E consider \in BOOLEAN :
          IF consider_array_sorting_panics(config, consider)
          THEN /\ pc' = "panicked"
               /\ last' = Call("consider_array_sorting", ToString(consider))
               /\ lhs' = NoValue
               /\ rhs' = NoValue
               /\ result' = NoResult
               /\ UNCHANGED config
          ELSE Built(consider_array_sorting(config, consider),
                     Call("consider_array_sorting", ToString(consider)))

Compared(l, r, res, op, cfg) ==
    /\ pc' = IF op \in {"assert_json_matches_no_panic", "try_assert_json_matches"} \/ res.ok
             THEN "returned" ELSE "panicked"
    /\ config' = cfg
    /\ last' = Call(op, "")
    /\ lhs' = l
    /\ rhs' = r
    /\ result' = res

AssertJsonMatchesNoPanic ==
    /\ Ready
    /\ \E l \in Values, r \in Values :
          Compared(l, r, assert_json_matches_no_panic(l, r, config),
                   "assert_json_matches_no_panic", config)

TryAssertJsonMatches ==
    /\ Ready
    /\ \E l \in Values, r \in Values :
          Compared(l, r, try_assert_json_matches(l, r, config),
                   "try_assert_json_matches", config)

AssertJsonMatches ==
    /\ Ready
    /\ \E l \in Values, r \in Values :
          Compared(l, r, assert_json_matches(l, r, config), "assert_json_matches", config)

AssertJsonEq ==
    /\ pc = "start"
    /\ \E l \in Values, r \in Values :
          Compared(l, r, assert_json_matches(l, r, assert_json_eq_config),
                   "assert_json_eq", assert_json_eq_config)

AssertJsonInclude ==
    /\ pc = "start"
    /\ \E actual \in Values, expected \in Values :
          Compared(actual, expected,
                   assert_json_matches(actual, expected, assert_json_include_config),
                   "assert_json_include", assert_json_include_config)

AssertJsonIncludeExpectedFirst ==
    /\ pc = "start"
    /\ \E expected \in Values, actual \in Values :
          Compared(actual, expected,
                   assert_json_include_expected_first(expected, actual),
                   "assert_json_include_expected_first", assert_json_include_config)

AssertJsonContains ==
    /\ pc = "start"
    /\ \E container \in Values, contained \in Values :
          Compared(container, contained,
                   assert_json_matches(container, contained, assert_json_contains_config),
                   "assert_json_contains", assert_json_contains_config)

Next ==
    \/ New
    \/ NumericMode
    \/ CompareMode
    \/ FloatCompareMode
    \/ ConsiderArraySorting
    \/ AssertJsonMatchesNoPanic
    \/ TryAssertJsonMatches
    \/ AssertJsonMatches
    \/ AssertJsonEq
    \/ AssertJsonInclude
    \/ AssertJsonIncludeExpectedFirst
    \/ AssertJsonContains

Spec == Init /\ [][Next]_vars

-----------------------------------------------------------------------------
(* Vocabulary of the properties *)

StrictIgnore(cfg) ==
    cfg.compare_mode = "Strict" /\ cfg.array_sorting_mode = "Ignore"

\* the differences of a comparison, as records handed to the caller
Differences(l, r, cfg) ==
    LET diffs == diff(l, r, cfg)
    IN  [i \in 1..Len(diffs) |-> into(diffs[i])]

\* the same differences, found below `key`
Under(key, ds) == [i \in 1..Len(ds) |-> [ds[i] EXCEPT !.path = <<key>> \o @]]

Mirror(d) ==
    [d EXCEPT !.lhs = d.rhs, !.rhs = d.lhs,
              !.missing_from = CASE @ = "lhs" -> "rhs" [] @ = "rhs" -> "lhs" [] OTHER -> @]

KeysIn(obj) == {obj.keys[i] : i \in 1..Len(obj.keys)}

At(obj, key) == obj.kids[get(obj, key)]

IsAtom(v) == v.kind \in {"null", "bool", "number", "string"}

\* how many elements of the array are the value v
Copies(arr, v) == Cardinality({j \in 1..Len(arr.kids) : arr.kids[j] = v})

\* how many elements of the array are equivalent to the expected value v
Equivalents(arr, v, cfg) ==
    Cardinality({j \in 1..Len(arr.kids) : diff(arr.kids[j], v, cfg) = <<>>})

\* exp is a permutation of act, or of some of the elements of act
SubMultiset(exp, act) ==
    \A i \in 1..Len(exp.kids) : Copies(exp, exp.kids[i]) <= Copies(act, exp.kids[i])

Permutation(exp, act) == SubMultiset(exp, act) /\ Len(exp.kids) = Len(act.kids)

\* the expected elements can be matched to equivalent actual elements,
\* each actual index used at most once
Matching(act, exp, cfg) ==
    \E m \in [1..Len(exp.kids) -> 1..Len(act.kids)] :
        /\ \A i, j \in 1..Len(exp.kids) : i # j => m[i] # m[j]
        /\ \A i \in 1..Len(exp.kids) : diff(act.kids[m[i]], exp.kids[i], cfg) = <<>>

\* big is small with extra object keys or trailing array elements added,
\* at any depth
RECURSIVE Extends(_, _)
Extends(big, small) ==
    CASE small.kind = "object" ->
            /\ big.kind = "object"
            /\ \A i \in 1..Len(small.keys) :
                  /\ get(big, small.keys[i]) # 0
                  /\ Extends(At(big, small.keys[i]), small.kids[i])
      [] small.kind = "array" ->
            /\ big.kind = "array"
            /\ Len(big.kids) >= Len(small.kids)
            /\ \A i \in 1..Len(small.kids) : Extends(big.kids[i], small.kids[i])
      [] OTHER -> big = small

InclusiveIgnore == [Config_new("Inclusive") EXCEPT !.array_sorting_mode = "Ignore"]

Tried == last.op = "try_assert_json_matches"

-----------------------------------------------------------------------------
(* C1. No Config that a chain of builder calls returns has compare_mode
   Strict together with array_sorting_mode Ignore. *)
C1_NeverStrictWithIgnore == pc = "config" => ~StrictIgnore(config)

(* C2. consider_array_sorting(false) on a Config whose compare_mode is Strict
   panics at that call: it never returns a Config for a later comparison. *)
C2_IgnoreUnderStrictPanicsAtCall ==
    (last = Call("consider_array_sorting", "FALSE") /\ config.compare_mode = "Strict")
        => pc = "panicked"

(* C3. Reflexivity: under every valid configuration, comparing a value with
   itself finds no difference: assert_json_matches_no_panic returns Ok, and so
   does every other entry point. *)
C3_Reflexive ==
    (pc \in {"returned", "panicked"} /\ lhs # NoValue /\ lhs = rhs /\ ~StrictIgnore(config))
        => (pc = "returned" /\ result = Ok)

C3_Witness ==
    /\ last.op = "assert_json_matches_no_panic"
    /\ lhs = rhs
    /\ lhs.kind = "array" /\ Len(lhs.kids) = 2 /\ lhs.kids[1].kind = "object"
    /\ config.compare_mode = "Inclusive" /\ config.array_sorting_mode = "Ignore"
    /\ config.numeric_mode = "AssumeFloat"
    /\ result.ok

(* C4. Strict symmetry: under a Strict configuration the differences of
   (v1, v2) are the mirror image of the differences of (v2, v1): the same
   paths in the same order, the two values swapped, the missing side swapped;
   so one is empty iff the other is. *)
C4_StrictSymmetry ==
    (Tried /\ config.compare_mode = "Strict")
        => result.diffs = [i \in 1..Len(Differences(rhs, lhs, config)) |->
                              Mirror(Differences(rhs, lhs, config)[i])]

C4_Witness ==
    /\ Tried /\ config.compare_mode = "Strict"
    /\ Len(result.diffs) = 2
    /\ result.diffs[1].type = "AtomMismatch"
    /\ result.diffs[2].missing_from = "lhs"

(* C5. Inclusive monotonicity: when actual A matches expected E under an
   Inclusive configuration, so does every A' that is A with extra object keys
   or trailing array elements added at any depth. *)
C5_InclusiveMonotone ==
    (Tried /\ config.compare_mode = "Inclusive" /\ result.ok)
        => \A bigger \in Values :
              Extends(bigger, lhs) => diff(bigger, rhs, config) = <<>>

C5_Witness ==
    /\ Tried /\ config.compare_mode = "Inclusive" /\ result.ok
    /\ config.array_sorting_mode = "Ignore"
    /\ lhs.kind = "array" /\ Len(lhs.kids) = 1 /\ Len(rhs.kids) = 1
    /\ \E bigger \in Values :
          /\ Extends(bigger, lhs)
          /\ Len(bigger.kids) > Len(lhs.kids)
          /\ Len(bigger.kids[1].keys) > Len(lhs.kids[1].keys)

(* C6. Inclusive mode on two objects checks the keys of the expected
   (second) object only, in order: an expected key that actual lacks gives
   exactly one ObjectKeyMissing at ".key", missing from actual; a shared key
   gives the differences of the two values below ".key"; a key of actual alone
   gives nothing. *)
C6_InclusiveObject ==
    /\ (Tried /\ config.compare_mode = "Inclusive"
          /\ lhs.kind = "object" /\ rhs.kind = "object")
        => result.diffs = Concat([i \in 1..Len(rhs.keys) |->
              IF rhs.keys[i] \in KeysIn(lhs)
              THEN Under(Key_Field(rhs.keys[i]),
                         Differences(At(lhs, rhs.keys[i]), rhs.kids[i], config))
              ELSE <<[type |-> "ObjectKeyMissing",
                      path |-> <<Key_Field(rhs.keys[i])>>,
                      lhs |-> NoValue,
                      rhs |-> rhs.kids[i],
                      missing_from |-> "actual"]>>])
    /\ (last.op = "assert_json_matches_no_panic" /\ config.compare_mode = "Inclusive"
          /\ lhs = ObjectOf({}, <<>>) /\ rhs.kind = "object" /\ Len(rhs.keys) = 1)
        => result.msg = "json atom at path \"." \o rhs.keys[1] \o "\" is missing from actual"

C6_Witness ==
    /\ Tried /\ config.compare_mode = "Inclusive"
    /\ lhs.kind = "object" /\ rhs.kind = "object"
    /\ KeysIn(lhs) = {"a"} /\ KeysIn(rhs) = {"b"}
    /\ Len(result.diffs) = 1
    /\ result.diffs[1].missing_from = "actual"

(* C7. Strict mode on two objects: a key of the first operand alone gives one
   ObjectKeyMissing at its path, missing from rhs; a key of the second operand
   alone gives one, missing from lhs; the result is empty only if the key sets
   are the same and every shared key compares equal. *)
C7_StrictObject ==
    (Tried /\ config.compare_mode = "Strict" /\ lhs.kind = "object" /\ rhs.kind = "object")
        => /\ \A k \in KeysIn(lhs) \ KeysIn(rhs) :
                 \E i \in 1..Len(result.diffs) :
                    /\ result.diffs[i] = [type |-> "ObjectKeyMissing",
                                          path |-> <<Key_Field(k)>>,
                                          lhs |-> At(lhs, k),
                                          rhs |-> NoValue,
                                          missing_from |-> "rhs"]
                    /\ \A j \in 1..Len(result.diffs) :
                          result.diffs[j].path[1] = Key_Field(k) => j = i
           /\ \A k \in KeysIn(rhs) \ KeysIn(lhs) :
                 \E i \in 1..Len(result.diffs) :
                    /\ result.diffs[i] = [type |-> "ObjectKeyMissing",
                                          path |-> <<Key_Field(k)>>,
                                          lhs |-> NoValue,
                                          rhs |-> At(rhs, k),
                                          missing_from |-> "lhs"]
                    /\ \A j \in 1..Len(result.diffs) :
                          result.diffs[j].path[1] = Key_Field(k) => j = i
           /\ result.ok =>
                 /\ KeysIn(lhs) = KeysIn(rhs)
                 /\ \A k \in KeysIn(lhs) : diff(At(lhs, k), At(rhs, k), config) = <<>>

C7_Witness ==
    /\ Tried /\ config.compare_mode = "Strict"
    /\ lhs.kind = "object" /\ rhs.kind = "object"
    /\ KeysIn(lhs) = {"a"} /\ KeysIn(rhs) = {"b"}
    /\ Len(result.diffs) = 2
    /\ result.diffs[1].missing_from = "rhs"
    /\ result.diffs[2].missing_from = "lhs"

DocLhs == ObjectOf({"a"}, [k \in {"a"} |-> ObjectOf({"b"}, [j \in {"b"} |-> JInt(1)])])

DocRhs == ObjectOf({"a"}, [k \in {"a"} |-> ObjectOf({}, <<>>)])

(* C8. assert_json_eq!({"a": {"b": 1}}, {"a": {}}) panics with the message
   the crate documentation gives: json atom at path ".a.b" is missing from
   lhs. *)
C8_DocumentedMessage ==
    (last.op = "assert_json_eq" /\ lhs = DocLhs /\ rhs = DocRhs)
        => /\ pc = "panicked"
           /\ result.msg = "\njson atom at path \".a.b\" is missing from lhs"

\* every expected element has at least as many equivalents in actual as
\* expected holds copies of it
Counted(act, exp, cfg) ==
    \A i \in 1..Len(exp.kids) :
        Equivalents(act, exp.kids[i], cfg) >= Copies(exp, exp.kids[i])

BothArrays == lhs.kind = "array" /\ rhs.kind = "array"

TriedIgnoringOrder ==
    /\ Tried
    /\ config.compare_mode = "Inclusive" /\ config.array_sorting_mode = "Ignore"
    /\ BothArrays

(* C9 as stated. Inclusive + Ignore: the result is empty only if the expected
   elements can be matched to equivalent actual elements, each actual index
   used at most once. *)
C9_EmptyOnlyIfMatched ==
    (TriedIgnoringOrder /\ result.ok) => Matching(lhs, rhs, config)

(* C9 as amended. Inclusive + Ignore counts repetitions and marks no actual
   index used: the result is empty iff every expected element has at least as
   many equivalent elements in actual as expected holds copies of it, each
   element that has not is reported as one ArrayElementMissing at its index in
   expected, and actual [1] against expected [1, 1] is so reported;
   assert_json_contains! compares this way. *)
C9_CountedContainment ==
    /\ TriedIgnoringOrder =>
          /\ result.ok <=> Counted(lhs, rhs, config)
          /\ result.diffs = Concat([i \in 1..Len(rhs.kids) |->
                IF Equivalents(lhs, rhs.kids[i], config) >= Copies(rhs, rhs.kids[i])
                THEN <<>>
                ELSE <<[type |-> "ArrayElementMissing",
                        path |-> <<Key_Idx(i - 1)>>,
                        lhs |-> NoValue,
                        rhs |-> rhs.kids[i],
                        missing_from |-> "actual"]>>])
          /\ (lhs = Array(<<JInt(1)>>) /\ rhs = Array(<<JInt(1), JInt(1)>>)) => ~result.ok
    /\ (last.op = "assert_json_contains" /\ BothArrays) =>
          (pc = "returned" <=> Counted(lhs, rhs, InclusiveIgnore))

C9_Witness ==
    /\ TriedIgnoringOrder
    /\ lhs = Array(<<JInt(1)>>)
    /\ rhs = Array(<<JInt(1), JInt(1)>>)
    /\ Len(result.diffs) = 2
    /\ result.diffs[2].type = "ArrayElementMissing"

(* C10 as stated, its second half. Inclusive + Ignore: the result is empty
   whenever every expected element has an equivalent element somewhere in
   actual. *)
C10_EquivalentSomewhereSuffices ==
    (TriedIgnoringOrder /\ \A i \in 1..Len(rhs.kids) : Equivalents(lhs, rhs.kids[i], config) >= 1)
        => result.ok

\* the indices at which the two arrays hold elements that are not equivalent
Unequal(act, exp, cfg) ==
    {i \in 1..Len(exp.kids) : diff(act.kids[i], exp.kids[i], cfg) # <<>>}

First(S) == CHOOSE i \in S : \A j \in S : i <= j

(* C10 as amended. With Consider, an array against a different permutation of
   itself has its first difference at the first index whose two elements are
   not equivalent, an AtomMismatch at "[i]" when the two are atoms. With
   Inclusive + Ignore the result is empty whenever expected is a permutation
   of actual or of some of the elements of actual, for the builder and for
   assert_json_contains!. *)
C10_ArrayOrder ==
    /\ (Tried /\ config.array_sorting_mode = "Consider" /\ BothArrays
          /\ Permutation(rhs, lhs) /\ lhs # rhs) =>
          IF Unequal(lhs, rhs, config) = {}
          THEN result.ok
          ELSE LET i == First(Unequal(lhs, rhs, config))
               IN  /\ result.diffs[1].path[1] = Key_Idx(i - 1)
                   /\ (IsAtom(lhs.kids[i]) /\ IsAtom(rhs.kids[i])) =>
                         result.diffs[1] = [type |-> "AtomMismatch",
                                            path |-> <<Key_Idx(i - 1)>>,
                                            lhs |-> lhs.kids[i],
                                            rhs |-> rhs.kids[i],
                                            missing_from |-> "none"]
    /\ (TriedIgnoringOrder /\ SubMultiset(rhs, lhs)) => result.ok
    /\ (last.op = "assert_json_contains" /\ BothArrays /\ SubMultiset(rhs, lhs)) =>
          pc = "returned"

C10_Witness ==
    /\ last.op = "assert_json_contains"
    /\ BothArrays
    /\ Len(lhs.kids) = 2 /\ lhs.kids[1].kind = "object"
    /\ Permutation(rhs, lhs) /\ lhs # rhs
    /\ pc = "returned"

-----------------------------------------------------------------------------
(* C11. Inclusive mode with array_sorting_mode Consider compares two arrays
   index by index over the indices of expected only, in order: an index that
   actual has too gives the differences of the two elements below "[i]", an
   expected index i >= len(actual) gives exactly one missing-index difference
   at "[i]", missing from actual, and the elements actual has beyond expected
   give nothing. *)
C11_InclusiveArray ==
    (Tried /\ config.compare_mode = "Inclusive" /\ config.array_sorting_mode = "Consider"
       /\ BothArrays)
        => result.diffs = Concat([i \in 1..Len(rhs.kids) |->
              IF i <= Len(lhs.kids)
              THEN Under(Key_Idx(i - 1), Differences(lhs.kids[i], rhs.kids[i], config))
              ELSE <<[type |-> "ArrayIndexMissing",
                      path |-> <<Key_Idx(i - 1)>>,
                      lhs |-> NoValue,
                      rhs |-> rhs.kids[i],
                      missing_from |-> "actual"]>>])

C11_Witness ==
    /\ Tried /\ config.compare_mode = "Inclusive" /\ config.array_sorting_mode = "Consider"
    /\ BothArrays
    /\ Len(lhs.kids) = 1 /\ Len(rhs.kids) = 2
    /\ Len(result.diffs) = 2
    /\ result.diffs[1].type = "AtomMismatch"
    /\ result.diffs[2].type = "ArrayIndexMissing"
    /\ result.diffs[2].path = <<Key_Idx(1)>>

C11_WitnessLonger ==
    /\ Tried /\ config.compare_mode = "Inclusive" /\ config.array_sorting_mode = "Consider"
    /\ BothArrays
    /\ Len(lhs.kids) = 2 /\ Len(rhs.kids) = 1
    /\ result.ok

-----------------------------------------------------------------------------
\* an integer on one side, the float of the same magnitude on the other
SameMagnitude ==
    /\ lhs.kind = "number" /\ rhs.kind = "number"
    /\ lhs.f # rhs.f
    /\ as_f64(lhs) = as_f64(rhs)

(* C12. Under numeric_mode Strict, the default that the macros
   assert_json_eq! and assert_json_include! run with, an integer and the float
   of the same magnitude (1 and 1.0) are never equal, in both compare modes
   and either way round; under numeric_mode AssumeFloat with float_compare_mode
   Exact they are equal, in both compare modes. *)
C12_NumericStrictness ==
    SameMagnitude =>
        /\ config.numeric_mode = "Strict" => ~result.ok
        /\ (config.numeric_mode = "AssumeFloat" /\ config.float_compare_mode = Exact)
              => result.ok
        /\ last.op \in {"assert_json_eq", "assert_json_include",
                        "assert_json_include_expected_first"} => pc = "panicked"

C12_Witness ==
    /\ SameMagnitude
    /\ last.op = "assert_json_include"
    /\ lhs = JInt(1) /\ rhs = JFloat(2)
    /\ pc = "panicked"

C12_WitnessAssumeFloat ==
    /\ SameMagnitude
    /\ Tried
    /\ config.numeric_mode = "AssumeFloat" /\ config.float_compare_mode = Exact
    /\ config.compare_mode = "Strict"
    /\ result.ok

-----------------------------------------------------------------------------
BothFloats ==
    /\ lhs.kind = "number" /\ rhs.kind = "number"
    /\ lhs.f /\ rhs.f

(* C13. With float_compare_mode Epsilon(e) two floats a and b compare equal
   iff |a - b| <= e, whatever the numeric mode (Strict, the default,
   included) and the compare mode; with float_compare_mode Exact two floats
   compare equal only if they are identical. *)
C13_EpsilonTolerance ==
    BothFloats =>
        /\ \A e \in Epsilons :
              config.float_compare_mode = Epsilon(e)
                  => (result.ok <=> Abs(lhs.n - rhs.n) <= e)
        /\ config.float_compare_mode = Exact => (result.ok => lhs = rhs)

\* the boundary |a - b| = e, numeric mode left at Strict
C13_Witness ==
    /\ BothFloats
    /\ config.float_compare_mode = Epsilon(1)
    /\ config.numeric_mode = "Strict"
    /\ Abs(lhs.n - rhs.n) = 1
    /\ result.ok

C13_WitnessBeyond ==
    /\ BothFloats
    /\ config.float_compare_mode = Epsilon(1)
    /\ Abs(lhs.n - rhs.n) > 1
    /\ ~result.ok

-----------------------------------------------------------------------------
\* the value that `v` holds at `path`, NoValue when it holds none
RECURSIVE ValueAt(_, _)
ValueAt(v, path) ==
    IF path = <<>> THEN v
    ELSE LET key == Head(path)
         IN  IF key.tag = "Field"
             THEN IF v.kind = "object" /\ get(v, key.key) # 0
                  THEN ValueAt(At(v, key.key), Tail(path))
                  ELSE NoValue
             ELSE IF v.kind = "array" /\ key.idx < Len(v.kids)
                  THEN ValueAt(v.kids[key.idx + 1], Tail(path))
                  ELSE NoValue

\* the message of one mismatch at the root, spelled out
RootMismatch(first, second) ==
    "json atoms at path \"(root)\" are not equal:\n"
        \o first \o ":\n" \o Indented(IF first = "    lhs" THEN lhs ELSE rhs) \o "\n"
        \o second \o ":\n" \o Indented(IF first = "    lhs" THEN rhs ELSE lhs)

(* C14. Under Inclusive mode the first operand is reported as "actual" and
   the second as "expected": an AtomMismatch carries the first operand's value
   at the path as its actual and the second operand's as its expected, and a
   missing entry is missing from "actual" or from "expected". Under Strict
   mode the first operand is "lhs" and the second is "rhs". The macro form
   assert_json_include!(expected: e, actual: a) gives what
   assert_json_include!(actual: a, expected: e) gives. *)
C14_OperandRoles ==
    /\ Tried =>
          \A i \in 1..Len(result.diffs) :
              LET d == result.diffs[i]
              IN  /\ d.type = "AtomMismatch"
                        => d.lhs = ValueAt(lhs, d.path) /\ d.rhs = ValueAt(rhs, d.path)
                  /\ d.type # "AtomMismatch"
                        => d.missing_from \in
                              (IF config.compare_mode = "Inclusive"
                               THEN {"actual", "expected"} ELSE {"lhs", "rhs"})
                  /\ d.missing_from \in {"actual", "lhs"}
                        => d.lhs = NoValue /\ d.rhs # NoValue
                  /\ d.missing_from \in {"expected", "rhs"}
                        => d.rhs = NoValue /\ d.lhs = ValueAt(lhs, d.path)
    /\ (last.op = "assert_json_matches_no_panic" /\ IsAtom(lhs) /\ IsAtom(rhs)
           /\ ~result.ok)
          => result.msg = IF config.compare_mode = "Inclusive"
                          THEN RootMismatch("    expected", "    actual")
                          ELSE RootMismatch("    lhs", "    rhs")
    /\ last.op = "assert_json_include_expected_first"
          => /\ result = assert_json_include(lhs, rhs)
             /\ pc = IF result.ok THEN "returned" ELSE "panicked"

\* assert_json_include!(expected: {a: 1}, actual: {a: 1, b: 1}) passes
C14_Witness ==
    /\ last.op = "assert_json_include_expected_first"
    /\ lhs = Object(<<"a", "b">>, <<JInt(1), JInt(1)>>)
    /\ rhs = Object(<<"a">>, <<JInt(1)>>)
    /\ pc = "returned"

C14_WitnessInclusive ==
    /\ last.op = "assert_json_matches_no_panic"
    /\ config.compare_mode = "Inclusive"
    /\ lhs = Bool(TRUE) /\ rhs = Bool(FALSE)
    /\ ~result.ok

C14_WitnessStrict ==
    /\ Tried
    /\ config.compare_mode = "Strict"
    /\ \E i \in 1..Len(result.diffs) :
          result.diffs[i].type = "AtomMismatch" /\ result.diffs[i].path # <<>>

-----------------------------------------------------------------------------
\* the keys a path is made of, and the paths into Values, which nest a
\* container in a container and no deeper
PathKeys ==
    {Key_Field(k) : k \in KeySet} \cup {Key_Idx(i) : i \in 0..(MaxLen - 1)}

Paths ==
    UNION {[1..n -> PathKeys] : n \in 0..2}

IsPrefix(p, q) == Len(p) <= Len(q) /\ SubSeq(q, 1, Len(p)) = p

\* both operands hold a value at `path`, and the two are of different kinds
KindMismatchAt(path) ==
    /\ ValueAt(lhs, path) # NoValue /\ ValueAt(rhs, path) # NoValue
    /\ ValueAt(lhs, path).kind # ValueAt(rhs, path).kind

\* array elements are compared at their index unless the order is ignored
\* under Inclusive mode, where an element has no counterpart of its own
ComparedAt(path) ==
    (config.compare_mode = "Inclusive" /\ config.array_sorting_mode = "Ignore")
        => \A j \in 1..Len(path) : path[j].tag = "Field"

(* C15. When the two values at a path are of different kinds, exactly one
   AtomMismatch is reported at that path, carrying the two whole values, and
   no difference is reported at any path strictly below it; a mismatch of the
   two operands themselves is reported at the root path, rendered "(root)". *)
C15_KindMismatchStopsDescent ==
    /\ Tried =>
          \A path \in Paths :
              (KindMismatchAt(path) /\ ComparedAt(path)) =>
                  /\ Cardinality({i \in 1..Len(result.diffs) :
                                     result.diffs[i].path = path}) = 1
                  /\ \A i \in 1..Len(result.diffs) :
                        LET d == result.diffs[i]
                        IN  IF d.path = path
                            THEN /\ d.type = "AtomMismatch"
                                 /\ d.lhs = ValueAt(lhs, path)
                                 /\ d.rhs = ValueAt(rhs, path)
                            ELSE ~IsPrefix(path, d.path)
    /\ (last.op = "assert_json_matches_no_panic" /\ KindMismatchAt(<<>>))
          => result.msg = IF config.compare_mode = "Inclusive"
                          THEN RootMismatch("    expected", "    actual")
                          ELSE RootMismatch("    lhs", "    rhs")

\* an object against an array below a key, both with members
C15_Witness ==
    /\ Tried
    /\ \E path \in Paths :
          /\ path # <<>>
          /\ KindMismatchAt(path) /\ ComparedAt(path)
          /\ ValueAt(lhs, path).kind = "object" /\ ValueAt(lhs, path).kids # <<>>
          /\ ValueAt(rhs, path).kind = "array" /\ ValueAt(rhs, path).kids # <<>>
          /\ result.diffs = <<[type |-> "AtomMismatch",
                               path |-> path,
                               lhs |-> ValueAt(lhs, path),
                               rhs |-> ValueAt(rhs, path),
                               missing_from |-> "none"]>>

C15_WitnessRoot ==
    /\ last.op = "assert_json_matches_no_panic"
    /\ lhs.kind = "object" /\ lhs.kids # <<>>
    /\ rhs = Null

-----------------------------------------------------------------------------
\* the place of a key among the members of its container
Rank(key) ==
    IF key.tag = "Idx" THEN key.idx
    ELSE CHOOSE i \in 1..Len(KeyOrder) : KeyOrder[i] = key.key

\* path p is met before path q on a depth-first walk
RECURSIVE Before(_, _)
Before(p, q) ==
    /\ p # <<>> /\ q # <<>>
    /\ \/ Rank(Head(p)) < Rank(Head(q))
       \/ Head(p) = Head(q) /\ Before(Tail(p), Tail(q))

\* one difference as the message shows it
Block(d, mode) ==
    IF d.type = "AtomMismatch"
    THEN "json atoms at path \"" \o Path_fmt(d.path) \o "\" are not equal:\n"
         \o (IF mode = "Inclusive"
             THEN "    expected:\n" \o Indented(d.rhs) \o "\n    actual:\n" \o Indented(d.lhs)
             ELSE "    lhs:\n" \o Indented(d.lhs) \o "\n    rhs:\n" \o Indented(d.rhs))
    ELSE "json atom at path \"" \o Path_fmt(d.path) \o "\" is missing from " \o d.missing_from

(* C16. The differences are reported in the order of a depth-first walk:
   array elements by increasing index, the keys of an object in the order
   the object holds them, so that a difference below [0] comes before one
   below [1]; assert_json_matches_no_panic renders the differences in that
   same order, one block for each, with a blank line between two blocks. *)
C16_PreOrder ==
    /\ Tried =>
          \A i \in 1..Len(result.diffs) : \A j \in 1..Len(result.diffs) :
              i < j => Before(result.diffs[i].path, result.diffs[j].path)
    /\ (last.op = "assert_json_matches_no_panic" /\ ~result.ok) =>
          LET ds == Differences(lhs, rhs, config)
          IN  result.msg =
                 Join([i \in 1..Len(ds) |-> Block(ds[i], config.compare_mode)], "\n\n")

\* a difference below [0] reported before one below [1]
C16_Witness ==
    /\ Tried
    /\ Len(result.diffs) = 2
    /\ result.diffs[1].path = <<Key_Idx(0), Key_Field("b")>>
    /\ result.diffs[2].path = <<Key_Idx(1), Key_Field("b")>>

C16_WitnessBlocks ==
    /\ last.op = "assert_json_matches_no_panic"
    /\ Len(Differences(lhs, rhs, config)) = 2
    /\ Differences(lhs, rhs, config)[1].type = "AtomMismatch"
    /\ Differences(lhs, rhs, config)[2].type = "ObjectKeyMissing"
    /\ ~result.ok

-----------------------------------------------------------------------------
StrictConsidered ==
    /\ Tried
    /\ config.compare_mode = "Strict" /\ config.array_sorting_mode = "Consider"
    /\ BothArrays

\* the difference for index i - 1, held by one of the two arrays only
IndexMissing(i) ==
    [type |-> "ArrayIndexMissing",
     path |-> <<Key_Idx(i - 1)>>,
     lhs  |-> IF i <= Len(lhs.kids) THEN lhs.kids[i] ELSE NoValue,
     rhs  |-> IF i <= Len(rhs.kids) THEN rhs.kids[i] ELSE NoValue,
     missing_from |-> IF i <= Len(lhs.kids) THEN "rhs" ELSE "lhs"]

(* C17. Under Strict mode with array_sorting_mode Consider two arrays of
   different lengths never compare equal: every index that only one of the
   two arrays has gives one missing-index difference at "[i]" that names the
   side without it, and the indices both have give the differences of their
   two elements below "[i]". *)
C17_StrictArrayLengths ==
    StrictConsidered =>
        /\ Len(lhs.kids) # Len(rhs.kids) => ~result.ok
        /\ result.diffs = Concat([i \in 1..Max(Len(lhs.kids), Len(rhs.kids)) |->
              IF i <= Len(lhs.kids) /\ i <= Len(rhs.kids)
              THEN Under(Key_Idx(i - 1), Differences(lhs.kids[i], rhs.kids[i], config))
              ELSE <<IndexMissing(i)>>])

\* rhs is the longer one: index 1 is missing from lhs
C17_Witness ==
    /\ StrictConsidered
    /\ Len(lhs.kids) = 1 /\ Len(rhs.kids) = 2
    /\ lhs.kids[1] # rhs.kids[1]
    /\ Len(result.diffs) = 2
    /\ result.diffs[2].missing_from = "lhs"

C17_WitnessShorter ==
    /\ StrictConsidered
    /\ Len(lhs.kids) = 2 /\ Len(rhs.kids) = 0
    /\ Len(result.diffs) = 2
    /\ result.diffs[1].missing_from = "rhs"

-----------------------------------------------------------------------------
BuilderCalls ==
    {"numeric_mode", "compare_mode", "float_compare_mode", "consider_array_sorting"}

(* C18. The only builder call that can fail is the one that sets
   array_sorting_mode to Ignore under Strict: on every Config, Strict ones
   included, consider_array_sorting(true) completes without a panic and
   returns the Config with array_sorting_mode Consider and the other three
   axes as they were; numeric_mode, compare_mode and float_compare_mode each
   change their own axis only. *)
C18_BuilderCalls ==
    [][/\ last' = Call("consider_array_sorting", "TRUE")
            => /\ pc' = "config"
               /\ config' = [config EXCEPT !.array_sorting_mode = "Consider"]
       /\ (last'.op \in BuilderCalls /\ pc' = "panicked")
            => /\ last' = Call("consider_array_sorting", "FALSE")
               /\ config.compare_mode = "Strict"
       /\ last'.op = "numeric_mode"
            => config' = [config EXCEPT !.numeric_mode = config'.numeric_mode]
       /\ last'.op = "compare_mode"
            => config' = [config EXCEPT !.compare_mode = config'.compare_mode]
       /\ last'.op = "float_compare_mode"
            => config' = [config EXCEPT !.float_compare_mode = config'.float_compare_mode]
      ]_vars

-----------------------------------------------------------------------------
\* what assert_json_matches_no_panic returns for the operands of this state
Rendered == assert_json_matches_no_panic(lhs, rhs, config)

(* C19. A comparison of well-formed values always completes with a result:
   assert_json_matches_no_panic returns Ok iff there is no difference and Err
   otherwise; try_assert_json_matches on the same operands and Config returns
   Ok iff assert_json_matches_no_panic does, and its Err holds one Difference
   for each block of the message, in the order of the blocks. *)
C19_ResultsAgree ==
    /\ last.op = "assert_json_matches_no_panic"
          => /\ pc = "returned"
             /\ result.ok <=> Differences(lhs, rhs, config) = <<>>
             /\ result.ok <=> result.msg = ""
    /\ Tried
          => /\ pc = "returned"
             /\ result.ok <=> Rendered.ok
             /\ result.ok <=> result.diffs = <<>>
             /\ Rendered.msg =
                   Join([i \in 1..Len(result.diffs) |->
                            Block(result.diffs[i], config.compare_mode)], "\n\n")

\* an Err of two differences of different types
C19_Witness ==
    /\ Tried
    /\ pc = "returned"
    /\ ~result.ok
    /\ Len(result.diffs) = 2
    /\ result.diffs[1].type # result.diffs[2].type
    /\ ~Rendered.ok

C19_WitnessOk ==
    /\ last.op = "assert_json_matches_no_panic"
    /\ lhs # rhs
    /\ result = Ok

====
